---- MODULE Spec2Model ----
(***************************************************************************)
(* A model of crawler/upload/helper.py: the dictionary mapper `transform`  *)
(* and the three PubMed extractors `pmid_to_funding`, `pmid_to_citation`   *)
(* and `pmid_with_eutils`.                                                 *)
(*                                                                         *)
(* Python values are represented as follows.                               *)
(*   str   : a sequence of one-character strings, <<"N","I","H">>; the     *)
(*           keys of dictionaries and the opaque values of a Record are    *)
(*           kept as TLA+ strings                                          *)
(*   dict  : insertion ordered, a sequence of <<key, value>> pairs with    *)
(*           pairwise distinct keys                                        *)
(*   list  : a sequence                                                    *)
(*   None  : the tuple <<"None">>, which is no str                         *)
(* Each function is a little state machine: `fn` is the function that was  *)
(* called, `pc` the position in its body, and a call ends in "returned"    *)
(* or in "raised" with the exception class in `exc`.                       *)
(***************************************************************************)
EXTENDS Integers, Sequences, FiniteSets, TLC

VARIABLES
    fn,            \* the function that was called, "" before the call
    pc,            \* position in the body of fn
    exc,           \* class of the exception that ended the call, "" if none
    result,        \* the returned value (meaningful when pc = "returned")
    \* transform
    doc,           \* argument: the Record, a dict
    mappings,      \* argument: the Field Mapping Table, key -> entry
    _doc,          \* local: the output dict under construction
    idx,           \* number of items the running for loop has consumed
    \* requests.get
    pmid,          \* argument of the three extractors
    requests,      \* the URLs fetched so far
    status,        \* status code of the response, 0 before there is one
    body,          \* response.text
    \* pmid_to_funding, pmid_with_eutils
    grants,        \* local: the grant strings (funding), the grant dicts (eutils)
    funding,       \* local: the Funding Entries built so far
    organization,  \* local of the grant loop, Unbound until first assigned
    identifier,    \* local of the grant loop, Unbound until first assigned
    \* pmid_with_eutils
    environ,       \* os.environ: whether API_KEY is set
    root,          \* local: the parsed document
    authors,       \* local: the "LastName Initials" strings
    citation       \* local: the citation string under construction

tvars == <<doc, mappings, _doc>>
hvars == <<pmid, requests, status, body>>
fvars == <<grants, funding, organization, identifier>>
evars == <<environ, root, authors, citation>>
vars == <<fn, pc, exc, result, idx, tvars, hvars, fvars, evars>>

----------------------------------------------------------------------------
(* Bounds of the model *)

MaxRecord == 3          \* items of a Record
MaxLen == 6             \* characters of a generated grant string
MaxShort == 2           \* characters of a grant string in a list of several
MaxGrants == 2          \* grant strings of a list of several
MaxText == 2            \* characters of the text of a citation page
MaxGrantElems == 2      \* Grant elements of a document
MaxAuthors == 5         \* Author elements of a document
MaxLeaves == 3          \* citation elements of a generated document

----------------------------------------------------------------------------
(* Python dict, as an insertion ordered sequence of <<key, value>> pairs *)

DictKeys(d) == {d[n][1] : n \in 1..Len(d)}

DictGet(d, k) == d[CHOOSE n \in 1..Len(d) : d[n][1] = k][2]

\* d[k] = v, keeping k at its place when it is already a key, but with the
\* earlier value kept: the behaviour of dict.setdefault
DictSetDefault(d, k, v) ==
    IF k \in DictKeys(d) THEN d ELSE Append(d, <<k, v>>)

\* d[k] = v: an existing key keeps its position and takes the new value, a new
\* key is appended
DictSet(d, k, v) ==
    IF k \in DictKeys(d)
    THEN [n \in 1..Len(d) |-> IF d[n][1] = k THEN <<k, v>> ELSE d[n]]
    ELSE Append(d, <<k, v>>)

\* d.update(m): d[k] = v for every item of m, in m's order
RECURSIVE DictUpdate(_, _)
DictUpdate(d, m) ==
    IF m = <<>> THEN d
    ELSE DictUpdate(DictSet(d, Head(m)[1], Head(m)[2]), Tail(m))

\* The dictionary as a TLA+ function, forgetting the order of its items:
\* what Python's == on dicts compares
AsMap(d) == [k \in DictKeys(d) |-> DictGet(d, k)]

----------------------------------------------------------------------------
(* Python str, as a sequence of one-character strings *)

\* None, and a local variable that was never assigned: neither is a str
None == <<"None">>
Unbound == <<"unbound">>

Upper == {"A", "B", "C", "D", "E", "F", "G", "H", "I", "J", "K", "L", "M",
          "N", "O", "P", "Q", "R", "S", "T", "U", "V", "W", "X", "Y", "Z"}
Lower == {"a", "b", "c", "d", "e", "f", "g", "h", "i", "j", "k", "l", "m",
          "n", "o", "p", "q", "r", "s", "t", "u", "v", "w", "x", "y", "z"}

\* Every character of s is an uppercase letter: what isalpha() and isupper()
\* together would accept
IsUpperAlpha(s) == \A n \in 1..Len(s) : s[n] \in Upper

\* s.isupper(): no cased character of s is lowercase and s has at least one
\* cased character
IsUpper(s) ==
    /\ \A n \in 1..Len(s) : s[n] \notin Lower
    /\ \E n \in 1..Len(s) : s[n] \in Upper

\* s.rsplit(sep, maxsplit): the splits are taken from the right
RECURSIVE RSplit(_, _, _)
RSplit(s, sep, maxsplit) ==
    IF maxsplit = 0 \/ ~\E n \in 1..Len(s) : s[n] = sep
    THEN <<s>>
    ELSE LET p == CHOOSE n \in 1..Len(s) :
                    s[n] = sep /\ \A o \in (n + 1)..Len(s) : s[o] # sep
         IN  Append(RSplit(SubSeq(s, 1, p - 1), sep, maxsplit - 1),
                    SubSeq(s, p + 1, Len(s)))

\* s[:-n] and l[:-n]
DropLast(s, n) == SubSeq(s, 1, Len(s) - n)

\* bool(x) of a str or None
Truthy(x) == x # None /\ x # <<>>

\* The non-empty strings of at most n characters over the alphabet A
Strings(A, n) == UNION {[1..k -> A] : k \in 1..n}

\* The lists of at most n elements of S
Lists(S, n) == UNION {[1..k -> S] : k \in 0..n}

----------------------------------------------------------------------------
(* transform: inputs *)

\* "name" is a source field and a destination field at once
SourceKeys == {"name", "link", "tags"}
Values == {"v1", "v2"}

\* Every dictionary key the model can produce, in the order of Python's
\* string comparison ('@' < 'l' < 'n' < 't' < 'u', and 'c' < 't')
SortedKeys == <<"@context", "@type", "link", "name", "tags", "url">>

KeyRank(k) == CHOOSE n \in 1..Len(SortedKeys) : SortedKeys[n] = k

\* Callables a table may hold: each returns a mapping
FnEmpty == [v \in Values |-> <<>>]
FnPair == [v \in Values |-> << <<"url", v>>, <<"name", "v1">> >>]

StrEntry(name) == [kind |-> "str", name |-> name]
CallableEntry(f) == [kind |-> "callable", call |-> f]
OtherEntry == [kind |-> "other"]

Entries ==
    {StrEntry(n) : n \in {"@type", "name"}}
        \cup {CallableEntry(f) : f \in {FnEmpty, FnPair}}
        \cup {OtherEntry}

Tables == UNION {[S -> Entries] : S \in SUBSET SourceKeys}

Records ==
    {r \in UNION {[1..n -> SourceKeys \X Values] : n \in 0..MaxRecord} :
        \A a, b \in 1..Len(r) : r[a][1] = r[b][1] => a = b}

\* isinstance(e, str) and callable(e)
IsStr(e) == e.kind = "str"
IsCallable(e) == e.kind = "callable"

----------------------------------------------------------------------------
(* transform *)

InitialDoc == << <<"@context", "http://schema.org/">>, <<"@type", "Dataset">> >>

\* sorted(d.items()): the items in ascending order of their keys
RECURSIVE SortedItems(_)
SortedItems(d) ==
    IF d = <<>> THEN <<>>
    ELSE LET m == CHOOSE n \in 1..Len(d) :
                    \A o \in 1..Len(d) : KeyRank(d[n][1]) <= KeyRank(d[o][1])
             rest == [n \in 1..(Len(d) - 1) |-> IF n < m THEN d[n] ELSE d[n + 1]]
         IN  <<d[m]>> \o SortedItems(rest)

Key == doc[idx + 1][1]
Value == doc[idx + 1][2]

CallTransform ==
    /\ pc = "idle"
    /\ \E d \in Records, m \in Tables :
        /\ doc' = d
        /\ mappings' = m
    /\ fn' = "transform"
    /\ _doc' = InitialDoc
    /\ idx' = 0
    /\ pc' = "transform.for"
    /\ UNCHANGED <<exc, result>>
    /\ UNCHANGED <<hvars, fvars, evars>>

InTransformLoop ==
    /\ fn = "transform"
    /\ pc = "transform.for"
    /\ idx < Len(doc)

\* A key of the Record that is absent from the table, copied to the output
TransformCopy ==
    /\ InTransformLoop
    /\ Key \notin DOMAIN mappings
    /\ _doc' = DictSet(_doc, Key, Value)
    /\ idx' = idx + 1
    /\ UNCHANGED <<fn, pc, exc, result, doc, mappings>>
    /\ UNCHANGED <<hvars, fvars, evars>>

\* if key in mappings: fails
TransformSkip ==
    /\ InTransformLoop
    /\ Key \notin DOMAIN mappings
    /\ idx' = idx + 1
    /\ UNCHANGED <<fn, pc, exc, result, doc, mappings, _doc>>
    /\ UNCHANGED <<hvars, fvars, evars>>

\* The renaming with an earlier write to the same key winning
TransformRenameKeepFirst ==
    /\ InTransformLoop
    /\ Key \in DOMAIN mappings
    /\ IsStr(mappings[Key])
    /\ _doc' = DictSetDefault(_doc, mappings[Key].name, Value)
    /\ idx' = idx + 1
    /\ UNCHANGED <<fn, pc, exc, result, doc, mappings>>
    /\ UNCHANGED <<hvars, fvars, evars>>

\* _doc[mappings[key]] = value
TransformRename ==
    /\ InTransformLoop
    /\ Key \in DOMAIN mappings
    /\ IsStr(mappings[Key])
    /\ _doc' = DictSet(_doc, mappings[Key].name, Value)
    /\ idx' = idx + 1
    /\ UNCHANGED <<fn, pc, exc, result, doc, mappings>>
    /\ UNCHANGED <<hvars, fvars, evars>>

\* _doc.update(mappings[key](value))
TransformExpand ==
    /\ InTransformLoop
    /\ Key \in DOMAIN mappings
    /\ ~IsStr(mappings[Key])
    /\ IsCallable(mappings[Key])
    /\ _doc' = DictUpdate(_doc, mappings[Key].call[Value])
    /\ idx' = idx + 1
    /\ UNCHANGED <<fn, pc, exc, result, doc, mappings>>
    /\ UNCHANGED <<hvars, fvars, evars>>

\* An entry that is neither a string nor a callable, passed over in silence
TransformPassOver ==
    /\ InTransformLoop
    /\ Key \in DOMAIN mappings
    /\ ~IsStr(mappings[Key])
    /\ ~IsCallable(mappings[Key])
    /\ idx' = idx + 1
    /\ UNCHANGED <<fn, pc, exc, result, doc, mappings, _doc>>
    /\ UNCHANGED <<hvars, fvars, evars>>

\* raise RuntimeError()
TransformRaise ==
    /\ InTransformLoop
    /\ Key \in DOMAIN mappings
    /\ ~IsStr(mappings[Key])
    /\ ~IsCallable(mappings[Key])
    /\ pc' = "raised"
    /\ exc' = "RuntimeError"
    /\ UNCHANGED <<fn, result, idx, tvars>>
    /\ UNCHANGED <<hvars, fvars, evars>>

\* return dict(sorted(_doc.items()))
TransformReturn ==
    /\ fn = "transform"
    /\ pc = "transform.for"
    /\ idx = Len(doc)
    /\ result' = SortedItems(_doc)
    /\ pc' = "returned"
    /\ UNCHANGED <<fn, exc, idx, tvars>>
    /\ UNCHANGED <<hvars, fvars, evars>>

NextTransform ==
    \/ CallTransform
    \/ TransformSkip
    \/ TransformRename
    \/ TransformExpand
    \/ TransformRaise
    \/ TransformReturn

----------------------------------------------------------------------------
(* transform: the properties *)

TransformEnded == fn = "transform" /\ pc \in {"returned", "raised"}

\* The keys of the Record that the table holds
Recognized == {k \in DictKeys(doc) : k \in DOMAIN mappings}

TableValid == \A k \in DOMAIN mappings : mappings[k].kind \in {"str", "callable"}

MapMerge(a, b) ==
    [k \in DOMAIN a \cup DOMAIN b |-> IF k \in DOMAIN b THEN b[k] ELSE a[k]]

InitialMap == [k \in {"@context", "@type"} |->
                  IF k = "@context" THEN "http://schema.org/" ELSE "Dataset"]

\* What one item of the Record contributes to the output
Contribution(item) ==
    IF item[1] \notin DOMAIN mappings THEN <<>>
    ELSE IF mappings[item[1]].kind = "str"
         THEN [k \in {mappings[item[1]].name} |-> item[2]]
         ELSE AsMap(mappings[item[1]].call[item[2]])

RECURSIVE Applied(_)
Applied(n) ==
    IF n = 0 THEN InitialMap ELSE MapMerge(Applied(n - 1), Contribution(doc[n]))

\* C1: on a table of strings and callables transform returns, and the document
\* it returns is the initial document with the steps of the Record's items
\* applied in the Record's order (skip, set output[s] = value, merge f(value)
\* with later writes overwriting earlier ones); the same holds of the document
\* under construction after each item.
TransformAppliesSteps ==
    (fn = "transform" /\ TableValid) =>
        /\ pc # "raised"
        /\ pc = "transform.for" => AsMap(_doc) = Applied(idx)
        /\ pc = "returned" => AsMap(result) = Applied(Len(doc))

\* A merge that overwrote an earlier rename: {"name": "v2", "link": "v1"} with
\* name -> "name" and link -> FnPair, which writes "name" again
TransformOverwriteReturned ==
    /\ fn = "transform"
    /\ pc = "returned"
    /\ TableValid
    /\ doc = << <<"name", "v2">>, <<"link", "v1">> >>
    /\ DOMAIN mappings = {"name", "link"}
    /\ mappings["name"] = StrEntry("name")
    /\ mappings["link"] = CallableEntry(FnPair)
    /\ AsMap(result) = [k \in {"@context", "@type", "name", "url"} |->
                            IF k = "@context" THEN "http://schema.org/"
                            ELSE IF k = "@type" THEN "Dataset" ELSE "v1"]

\* The destination keys written for the recognized keys of the Record
WrittenKeys ==
    UNION {DOMAIN Contribution(doc[n]) : n \in 1..Len(doc)}

\* Every recognized key is renamed, to a name of its own that is not one of the
\* two constant keys
DistinctRenames ==
    /\ \A k \in Recognized : mappings[k].kind = "str"
    /\ \A k \in Recognized : mappings[k].name \notin {"@context", "@type"}
    /\ \A k, l \in Recognized : mappings[k].name = mappings[l].name => k = l

ConstantsIntact(d) ==
    /\ {"@context", "@type"} \subseteq DictKeys(d)
    /\ DictGet(d, "@context") = "http://schema.org/"
    /\ DictGet(d, "@type") = "Dataset"

\* C6 as stated: the output is the two constant entries plus exactly one entry
\* per recognized key of the Record.
MapperOneEntryPerRecognizedKey ==
    (fn = "transform" /\ pc = "returned") =>
        /\ ConstantsIntact(result)
        /\ Cardinality(DictKeys(result)) = 2 + Cardinality(Recognized)

\* C6 as amended: the keys of the output are "@context", "@type" and the keys
\* written for the recognized keys of the Record (the mapped string, or the
\* keys of the mapping the callable returns), so a key absent from the table
\* contributes nothing; there are exactly 2 + number-of-recognized-keys entries
\* with both constants intact when every recognized key is renamed to a name of
\* its own other than the two constant keys; an empty Record yields exactly the
\* two constant entries.
MapperOutputKeys ==
    (fn = "transform" /\ pc = "returned") =>
        /\ DictKeys(result) = {"@context", "@type"} \cup WrittenKeys
        /\ DistinctRenames =>
              /\ ConstantsIntact(result)
              /\ Cardinality(DictKeys(result)) = 2 + Cardinality(Recognized)
        /\ doc = <<>> => result = InitialDoc

\* One recognized key renamed, one key absent from the table dropped
MapperRenamedAndDropped ==
    /\ fn = "transform"
    /\ pc = "returned"
    /\ Len(doc) = 2
    /\ Cardinality(Recognized) = 1
    /\ DistinctRenames
    /\ Cardinality(DictKeys(result)) = 3

\* C8 as stated: transform raises whenever the table holds an entry that is
\* neither a string nor a callable.
TransformRejectsInvalidTable ==
    (TransformEnded /\ ~TableValid) => (pc = "raised" /\ exc = "RuntimeError")

\* The items of the Record whose table entry is neither a string nor a callable
InvalidItems ==
    {n \in 1..Len(doc) :
        /\ doc[n][1] \in DOMAIN mappings
        /\ mappings[doc[n][1]].kind \notin {"str", "callable"}}

\* C8 as amended: transform raises (RuntimeError, the code's error for an
\* invalid table) and returns no document exactly when a key of the Record is
\* mapped to an entry that is neither a string nor a callable; it raises at the
\* first such item and never consumes one; an invalid entry under a key the
\* Record does not hold is not inspected.
TransformRejectsInvalidEntryOfRecord ==
    fn = "transform" =>
        /\ \A n \in InvalidItems : idx < n
        /\ pc = "raised" =>
              /\ exc = "RuntimeError"
              /\ result = <<>>
              /\ idx + 1 \in InvalidItems
        /\ pc = "returned" => (InvalidItems = {} /\ exc = "")

\* Raised at the second item, after the first was written to the output
TransformRaisedAtSecondItem ==
    /\ fn = "transform"
    /\ pc = "raised"
    /\ idx = 1
    /\ Len(_doc) = 3

----------------------------------------------------------------------------
(* requests.get(url).text *)

Pmids == {"20109744"}

\* The three URL templates, each completed with the pmid
PubmedUrl(id) == <<"https://www.ncbi.nlm.nih.gov/pubmed/", id>>
CitationUrl(id) == <<"https://www.ncbi.nlm.nih.gov/sites/PubmedCitation?id=", id>>
EutilsUrl(id) ==
    <<"https://eutils.ncbi.nlm.nih.gov/entrez/eutils/efetch.fcgi?db=pubmed&id=",
      id, "&retmode=xml&api_key=", "API_KEY">>

\* Status codes of a response
StatusCodes == {200, 404}

\* requests.get fails to connect: requests.ConnectionError propagates
GetFails(f, url) ==
    /\ fn = f
    /\ pc = "get"
    /\ requests' = Append(requests, url)
    /\ pc' = "raised"
    /\ exc' = "ConnectionError"
    /\ UNCHANGED <<fn, result, idx, pmid, status, body, tvars, fvars, evars>>

\* requests.get(url).text: requests.get returns the response whatever its
\* status, and .text is its body. A response of status 200 carries one of
\* `bodies`, an error response one of `errors`.
GetReturns(f, url, bodies, errors) ==
    /\ fn = f
    /\ pc = "get"
    /\ requests' = Append(requests, url)
    /\ \E st \in StatusCodes :
        /\ status' = st
        /\ body' \in IF st = 200 THEN bodies ELSE errors
    /\ pc' = "parse"
    /\ UNCHANGED <<fn, exc, result, idx, pmid, tvars, fvars, evars>>

----------------------------------------------------------------------------
(* pmid_to_funding: inputs *)

\* One character of each kind the parser tells apart: the separator, an
\* uppercase letter, a lowercase letter, an uncased character
Alphabet == {"/", "R", "d", " "}

\* Grant strings of the comments of lines 52-67, with and without the blanks
\* that pad their columns there
GrantPadded ==
    <<"M", "0", "1", " ", "R", "R", "0", "0", "0", "0", "5", "1", "-", "4",
      "7", "5", "6", "1", "1", " ", "/", "R", "R", " ", "/", "N", "C", "R",
      "R", " ", "N", "I", "H", " ", "H", "H", "S", " ", "/", "U", "n", "i",
      "t", "e", "d", " ", "S", "t", "a", "t", "e", "s">>
GrantCompact ==
    <<"R", "0", "1", " ", "D", "K", "0", "9", "0", "5", "5", "4", "/", "D",
      "K", "/", "N", "I", "D", "D", "K", " ", "N", "I", "H", " ", "H", "H",
      "S", "/", "U", "n", "i", "t", "e", "d", " ", "S", "t", "a", "t", "e",
      "s">>
GrantCouncil ==
    <<"M", "C", "_", "U", "U", "_", "1", "2", "0", "1", "0", "/", "1", "0",
      "/", "M", "e", "d", "i", "c", "a", "l", " ", "R", "e", "s", "e", "a",
      "r", "c", "h", " ", "C", "o", "u", "n", "c", "i", "l", "/", "U", "n",
      "i", "t", "e", "d", " ", "K", "i", "n", "g", "d", "o", "m">>
GrantTrust ==
    <<"W", "e", "l", "l", "c", "o", "m", "e", " ", "T", "r", "u", "s", "t",
      "/", "U", "n", "i", "t", "e", "d", " ", "K", "i", "n", "g", "d", "o",
      "m">>

ExampleGrants == {GrantPadded, GrantCompact, GrantCouncil, GrantTrust}

\* The link texts under a heading: one grant string of up to MaxLen characters,
\* one of the examples, or up to MaxGrants strings of up to MaxShort characters
GrantLists ==
    {<<g>> : g \in Strings(Alphabet, MaxLen) \cup ExampleGrants}
        \cup Lists(Strings({"/", "R", "d"}, MaxShort), MaxGrants)
        \cup {<<GrantCompact, GrantTrust, GrantCouncil>>}

\* An h4 element: whether its markup contains 'Grant support', and the texts
\* of the links of the ul that follows it
Heading(grant, links) == [grant |-> grant, links |-> links]

\* The h4 elements the pattern selects from a page
Pages ==
    {<<>>, <<Heading(FALSE, <<GrantTrust>>)>>}
        \cup {<<Heading(FALSE, <<>>), Heading(TRUE, l)>> : l \in GrantLists}
        \cup {<<Heading(TRUE, <<GrantTrust>>), Heading(TRUE, l), Heading(FALSE, <<>>)>> :
                  l \in Lists({GrantCompact}, 1)}

\* The h4 elements the pattern selects from the page of an error response
ErrorPages == {<<>>, <<Heading(TRUE, <<GrantTrust>>)>>, <<Heading(TRUE, <<<<"d">>>>)>>}

----------------------------------------------------------------------------
(* pmid_to_funding *)

\* The for loop over the sections: grants is assigned at every heading that
\* contains 'Grant support', so the last one decides
RECURSIVE GrantStrings(_)
GrantStrings(sections) ==
    IF sections = <<>> THEN <<>>
    ELSE IF sections[Len(sections)].grant
         THEN sections[Len(sections)].links
         ELSE GrantStrings(DropLast(sections, 1))

\* grant.rsplit('/', 2)[:-1]
Segments(grant) == DropLast(RSplit(grant, "/", 2), 1)

\* Lines 81-90 with isalpha() added to c_3
IdentifierOfAlpha(segments) ==
    LET subsegments == RSplit(segments[1], "/", 1)
        c_1 == Len(subsegments) = 2
        c_2 == Len(subsegments[Len(subsegments)]) = 2
        c_3 == IsUpperAlpha(subsegments[Len(subsegments)])
    IN  IF c_1 /\ c_2 /\ c_3 THEN DropLast(segments[1], 3) ELSE segments[1]

\* Lines 81-90: the identifier of a grant string of two segments
IdentifierOf(segments) ==
    LET subsegments == RSplit(segments[1], "/", 1)
        c_1 == Len(subsegments) = 2
        c_2 == Len(subsegments[Len(subsegments)]) = 2
        c_3 == IsUpper(subsegments[Len(subsegments)])
    IN  IF c_1 /\ c_2 /\ c_3 THEN DropLast(segments[1], 3) ELSE segments[1]

Str_Organization == <<"O", "r", "g", "a", "n", "i", "z", "a", "t", "i", "o", "n">>

\* Lines 92-99: the Funding Entry of an organization and an identifier
FundingEntry(org, id) ==
    LET entry == << <<"funder", << <<"@type", Str_Organization>>, <<"name", org>> >> >> >>
    IN  IF Truthy(id) THEN DictSet(entry, "identifier", id) ELSE entry

Grant == grants[idx + 1]

CallFunding ==
    /\ pc = "idle"
    /\ fn' = "pmid_to_funding"
    /\ pmid' \in Pmids
    /\ pc' = "get"
    /\ UNCHANGED <<exc, result, idx, requests, status, body, tvars, fvars, evars>>

FundingGetFails == GetFails("pmid_to_funding", PubmedUrl(pmid))

FundingGet == GetReturns("pmid_to_funding", PubmedUrl(pmid), Pages, ErrorPages)

\* Lines 33-49: the sections and the grant strings
FundingSections ==
    /\ fn = "pmid_to_funding"
    /\ pc = "parse"
    /\ grants' = GrantStrings(body)
    /\ funding' = <<>>
    /\ idx' = 0
    /\ pc' = "funding.for"
    /\ UNCHANGED <<fn, exc, result, hvars, tvars, organization, identifier, evars>>

InFundingLoop ==
    /\ fn = "pmid_to_funding"
    /\ pc = "funding.for"
    /\ idx < Len(grants)

\* len(segments) == 1
FundingOrganizationOnly ==
    /\ InFundingLoop
    /\ Len(Segments(Grant)) = 1
    /\ organization' = Segments(Grant)[1]
    /\ identifier' = None
    /\ funding' = Append(funding, FundingEntry(organization', identifier'))
    /\ idx' = idx + 1
    /\ UNCHANGED <<fn, pc, exc, result, hvars, tvars, grants, evars>>

\* len(segments) == 2
FundingWithIdentifier ==
    /\ InFundingLoop
    /\ Len(Segments(Grant)) = 2
    /\ organization' = Segments(Grant)[2]
    /\ identifier' = IdentifierOf(Segments(Grant))
    /\ funding' = Append(funding, FundingEntry(organization', identifier'))
    /\ idx' = idx + 1
    /\ UNCHANGED <<fn, pc, exc, result, hvars, tvars, grants, evars>>

\* No segment is left (the grant string has no '/') and neither branch runs:
\* the entry is built from the values of the previous iteration
FundingStale ==
    /\ InFundingLoop
    /\ Len(Segments(Grant)) \notin {1, 2}
    /\ organization # Unbound
    /\ funding' = Append(funding, FundingEntry(organization, identifier))
    /\ idx' = idx + 1
    /\ UNCHANGED <<fn, pc, exc, result, hvars, tvars, grants, organization,
                   identifier, evars>>

\* No segment is left in the first iteration: line 95 reads organization
\* before any assignment
FundingUnbound ==
    /\ InFundingLoop
    /\ Len(Segments(Grant)) \notin {1, 2}
    /\ organization = Unbound
    /\ pc' = "raised"
    /\ exc' = "UnboundLocalError"
    /\ UNCHANGED <<fn, result, idx, hvars, tvars, fvars, evars>>

\* return funding
FundingReturn ==
    /\ fn = "pmid_to_funding"
    /\ pc = "funding.for"
    /\ idx = Len(grants)
    /\ result' = funding
    /\ pc' = "returned"
    /\ UNCHANGED <<fn, exc, idx, hvars, tvars, fvars, evars>>

NextFunding ==
    \/ CallFunding
    \/ FundingGetFails
    \/ FundingGet
    \/ FundingSections
    \/ FundingOrganizationOnly
    \/ FundingWithIdentifier
    \/ FundingStale
    \/ FundingUnbound
    \/ FundingReturn

----------------------------------------------------------------------------
(* pmid_to_citation *)

\* The non-breaking space u'\xa0'
Nbsp == "nbsp"

\* The flattened text of a page
Texts == Lists({"a", " ", Nbsp}, MaxText)

\* s.replace(old, new) for single characters
Replace(s, old, new) == [n \in 1..Len(s) |-> IF s[n] = old THEN new ELSE s[n]]

CallCitation ==
    /\ pc = "idle"
    /\ fn' = "pmid_to_citation"
    /\ pmid' \in Pmids
    /\ pc' = "get"
    /\ UNCHANGED <<exc, result, idx, requests, status, body, tvars, fvars, evars>>

CitationGetFails == GetFails("pmid_to_citation", CitationUrl(pmid))

CitationGet == GetReturns("pmid_to_citation", CitationUrl(pmid), Texts, Texts)

\* Lines 112-113
CitationReturn ==
    /\ fn = "pmid_to_citation"
    /\ pc = "parse"
    /\ result' = Replace(body, Nbsp, " ")
    /\ pc' = "returned"
    /\ UNCHANGED <<fn, exc, idx, hvars, tvars, fvars, evars>>

NextCitation ==
    \/ CallCitation
    \/ CitationGetFails
    \/ CitationGet
    \/ CitationReturn

----------------------------------------------------------------------------
(* pmid_with_eutils: inputs *)

\* element.find(child) is None
Absent == <<"absent">>

Str_NIH == <<"N", "I", "H">>
Str_R01 == <<"R", "0", "1">>
Str_Doe == <<"D", "o", "e">>
Str_Roe == <<"R", "o", "e">>
Str_None == <<"N", "o", "n", "e">>

\* A Grant element: for each of the children Agency and GrantID, Absent or
\* the text of the first such child, which is None for an element without text
GrantElement(agency, grantid) == [Agency |-> agency, GrantID |-> grantid]

GrantElements ==
    {GrantElement(a, g) : a \in {Absent, None, Str_NIH}, g \in {Absent, None, Str_R01}}

\* An Author element, likewise, with the children LastName and Initials
AuthorElement(lastname, initials) == [LastName |-> lastname, Initials |-> initials]

AuthorElements ==
    {AuthorElement(Str_Doe, <<"J">>),
     AuthorElement(Str_Roe, None),
     AuthorElement(Absent, <<"A">>)}

TitlePath == ".//MedlineCitation/Article/ArticleTitle"
JournalPath == ".//MedlineCitation/MedlineJournalInfo/MedlineTA"
YearPath == ".//MedlineCitation/Article/Journal/JournalIssue/PubDate/Year"
MonthPath == ".//MedlineCitation/Article/Journal/JournalIssue/PubDate/Month"
VolumePath == ".//MedlineCitation/Article/Journal/JournalIssue/Volume"
IssuePath == ".//MedlineCitation/Article/Journal/JournalIssue/Issue"
PagesPath == ".//MedlineCitation/Article/Pagination/MedlinePgn"

\* The tuple `features` with the month before the year
FeaturesMonthFirst ==
    << [path |-> TitlePath, pre |-> <<>>, post |-> <<" ">>],
       [path |-> JournalPath, pre |-> <<>>, post |-> <<" ">>],
       [path |-> MonthPath, pre |-> <<>>, post |-> <<";">>],
       [path |-> YearPath, pre |-> <<>>, post |-> <<" ">>],
       [path |-> VolumePath, pre |-> <<>>, post |-> <<>>],
       [path |-> IssuePath, pre |-> <<"(">>, post |-> <<")">>],
       [path |-> PagesPath, pre |-> <<":">>, post |-> <<>>] >>

\* The tuple `features`: the element paths of the citation, each with the
\* text before and after the '{}' of its template
Features ==
    << [path |-> TitlePath, pre |-> <<>>, post |-> <<" ">>],
       [path |-> JournalPath, pre |-> <<>>, post |-> <<" ">>],
       [path |-> YearPath, pre |-> <<>>, post |-> <<" ">>],
       [path |-> MonthPath, pre |-> <<>>, post |-> <<";">>],
       [path |-> VolumePath, pre |-> <<>>, post |-> <<>>],
       [path |-> IssuePath, pre |-> <<"(">>, post |-> <<")">>],
       [path |-> PagesPath, pre |-> <<":">>, post |-> <<>>] >>

\* An element one of the paths selects, with its text
Leaf(path, text) == [path |-> path, text |-> text]

TitleLeaf == Leaf(TitlePath, <<"T">>)
OtherTitleLeaf == Leaf(TitlePath, <<"U">>)
JournalLeaf == Leaf(JournalPath, <<"J">>)
YearLeaf == Leaf(YearPath, <<"2", "0", "1", "9">>)
MonthLeaf == Leaf(MonthPath, <<"M", "a", "y">>)
VolumeLeaf == Leaf(VolumePath, <<"7">>)
EmptyVolumeLeaf == Leaf(VolumePath, None)
IssueLeaf == Leaf(IssuePath, <<"3">>)
PagesLeaf == Leaf(PagesPath, <<"1", "-", "9">>)

Leaves ==
    {TitleLeaf, OtherTitleLeaf, JournalLeaf, YearLeaf, MonthLeaf, VolumeLeaf,
     EmptyVolumeLeaf, IssueLeaf, PagesLeaf}

\* A response body: whether it is well-formed XML, whether its root has child
\* elements, and, in document order, its Grant elements, its Author elements
\* and the elements the citation paths select
Document(children, g, a, l) ==
    [wellformed |-> TRUE, children |-> children, grants |-> g, authors |-> a,
     leaves |-> l]

Malformed ==
    [wellformed |-> FALSE, children |-> FALSE, grants |-> <<>>, authors |-> <<>>,
     leaves |-> <<>>]

ChildlessRoot == Document(FALSE, <<>>, <<>>, <<>>)

\* One Grant with Agency "NIH" and no GrantID
AgencyOnlyDocument == Document(TRUE, <<GrantElement(Str_NIH, Absent)>>, <<>>, <<>>)

\* Every element of the citation, in the reverse of the order of `features`
ReversedDocument ==
    Document(TRUE, <<GrantElement(Str_NIH, Str_R01)>>,
             <<AuthorElement(Str_Doe, <<"J">>), AuthorElement(Str_Roe, None)>>,
             <<PagesLeaf, IssueLeaf, VolumeLeaf, MonthLeaf, YearLeaf, JournalLeaf,
               TitleLeaf>>)

\* The same without its Volume
NoVolumeDocument ==
    Document(TRUE, <<>>, <<AuthorElement(Str_Doe, <<"J">>)>>,
             <<TitleLeaf, JournalLeaf, YearLeaf, MonthLeaf, IssueLeaf, PagesLeaf>>)

\* The documents vary one kind of element at a time
Documents ==
    {Document(TRUE, g, <<>>, <<>>) : g \in Lists(GrantElements, MaxGrantElems)}
        \cup {Document(TRUE, <<>>, a, <<>>) : a \in Lists(AuthorElements, MaxAuthors)}
        \cup {Document(TRUE, <<>>, <<>>, l) : l \in Lists(Leaves, MaxLeaves)}
        \cup {ChildlessRoot, AgencyOnlyDocument, ReversedDocument, NoVolumeDocument}

XmlBodies == Documents \cup {Malformed}

\* The bodies of error responses: no XML, an empty root, or a record all the same
ErrorBodies == {Malformed, ChildlessRoot, AgencyOnlyDocument, NoVolumeDocument}

----------------------------------------------------------------------------
(* pmid_with_eutils *)

\* f"{x}" and '...{}...'.format(x): the text of x, 'None' for None
Format(x) == IF x = None THEN Str_None ELSE x

\* sep.join(l)
RECURSIVE Join(_, _)
Join(sep, l) ==
    IF l = <<>> THEN <<>>
    ELSE IF Len(l) = 1 THEN l[1]
    ELSE l[1] \o sep \o Join(sep, Tail(l))

\* l[:n]
Take(l, n) == SubSeq(l, 1, IF Len(l) < n THEN Len(l) ELSE n)

\* root.find(path) is not None
Found(path) == \E n \in 1..Len(root.leaves) : root.leaves[n].path = path

\* root.find(path): the first element the path selects
Find(path) ==
    root.leaves[CHOOSE n \in 1..Len(root.leaves) :
        /\ root.leaves[n].path = path
        /\ \A o \in 1..(n - 1) : root.leaves[o].path # path]

\* Lines 132-140: the dict of a Grant element
GrantDict(e) ==
    LET funder == IF e.Agency # Absent
                  THEN << <<"funder", << <<"@type", Str_Organization>>,
                                         <<"name", e.Agency>> >> >> >>
                  ELSE <<>>
    IN  IF e.GrantID # Absent
        THEN DictSet(funder, "identifier", e.GrantID)
        ELSE funder

CallEutils ==
    /\ pc = "idle"
    /\ fn' = "pmid_with_eutils"
    /\ pmid' \in Pmids
    /\ environ' \in {{}, {"API_KEY"}}
    /\ pc' = "eutils.environ"
    /\ UNCHANGED <<exc, result, idx, requests, status, body, tvars, fvars>>
    /\ UNCHANGED <<root, authors, citation>>

\* os.environ['API_KEY'] of an environment without it
EutilsKeyError ==
    /\ fn = "pmid_with_eutils"
    /\ pc = "eutils.environ"
    /\ "API_KEY" \notin environ
    /\ pc' = "raised"
    /\ exc' = "KeyError"
    /\ UNCHANGED <<fn, result, idx, hvars, tvars, fvars, evars>>

\* Line 121
EutilsUrlFormat ==
    /\ fn = "pmid_with_eutils"
    /\ pc = "eutils.environ"
    /\ "API_KEY" \in environ
    /\ pc' = "get"
    /\ UNCHANGED <<fn, exc, result, idx, hvars, tvars, fvars, evars>>

EutilsGetFails == GetFails("pmid_with_eutils", EutilsUrl(pmid))

EutilsGet == GetReturns("pmid_with_eutils", EutilsUrl(pmid), XmlBodies, ErrorBodies)

\* ET.fromstring(body) of a body that is not well-formed
EutilsParseError ==
    /\ fn = "pmid_with_eutils"
    /\ pc = "parse"
    /\ ~body.wellformed
    /\ pc' = "raised"
    /\ exc' = "ParseError"
    /\ UNCHANGED <<fn, result, idx, hvars, tvars, fvars, evars>>

\* assert root: an Element without child elements is false
EutilsAssertionError ==
    /\ fn = "pmid_with_eutils"
    /\ pc = "parse"
    /\ body.wellformed
    /\ ~body.children
    /\ pc' = "raised"
    /\ exc' = "AssertionError"
    /\ UNCHANGED <<fn, result, idx, hvars, tvars, fvars, evars>>

\* Lines 123-129
EutilsParse ==
    /\ fn = "pmid_with_eutils"
    /\ pc = "parse"
    /\ body.wellformed
    /\ body.children
    /\ root' = body
    /\ grants' = <<>>
    /\ idx' = 0
    /\ pc' = "eutils.grants"
    /\ UNCHANGED <<fn, exc, result, hvars, tvars, funding, organization, identifier>>
    /\ UNCHANGED <<environ, authors, citation>>

InGrantLoop ==
    /\ fn = "pmid_with_eutils"
    /\ pc = "eutils.grants"
    /\ idx < Len(root.grants)

\* Every Grant element appended, its dict empty or not
EutilsGrantAlways ==
    /\ InGrantLoop
    /\ GrantDict(root.grants[idx + 1]) = <<>>
    /\ grants' = Append(grants, GrantDict(root.grants[idx + 1]))
    /\ idx' = idx + 1
    /\ UNCHANGED <<fn, pc, exc, result, hvars, tvars, funding, organization, identifier>>
    /\ UNCHANGED evars

\* if grant: fails for the empty dict
EutilsGrantDropped ==
    /\ InGrantLoop
    /\ GrantDict(root.grants[idx + 1]) = <<>>
    /\ idx' = idx + 1
    /\ UNCHANGED <<fn, pc, exc, result, hvars, tvars, fvars, evars>>

\* grants.append(grant)
EutilsGrantKept ==
    /\ InGrantLoop
    /\ GrantDict(root.grants[idx + 1]) # <<>>
    /\ grants' = Append(grants, GrantDict(root.grants[idx + 1]))
    /\ idx' = idx + 1
    /\ UNCHANGED <<fn, pc, exc, result, hvars, tvars, funding, organization, identifier>>
    /\ UNCHANGED evars

\* Lines 146-151
EutilsGrantsDone ==
    /\ fn = "pmid_with_eutils"
    /\ pc = "eutils.grants"
    /\ idx = Len(root.grants)
    /\ citation' = <<>>
    /\ authors' = <<>>
    /\ idx' = 0
    /\ pc' = "eutils.authors"
    /\ UNCHANGED <<fn, exc, result, hvars, tvars, fvars, environ, root>>

InAuthorLoop ==
    /\ fn = "pmid_with_eutils"
    /\ pc = "eutils.authors"
    /\ idx < Len(root.authors)

\* author.find(...) is None for a missing child, and None has no .text
EutilsAuthorAttributeError ==
    /\ InAuthorLoop
    /\ \/ root.authors[idx + 1].LastName = Absent
       \/ root.authors[idx + 1].Initials = Absent
    /\ pc' = "raised"
    /\ exc' = "AttributeError"
    /\ UNCHANGED <<fn, result, idx, hvars, tvars, fvars, evars>>

\* Lines 152-154
EutilsAuthor ==
    /\ InAuthorLoop
    /\ root.authors[idx + 1].LastName # Absent
    /\ root.authors[idx + 1].Initials # Absent
    /\ authors' = Append(authors, Format(root.authors[idx + 1].LastName) \o <<" ">>
                                      \o Format(root.authors[idx + 1].Initials))
    /\ idx' = idx + 1
    /\ UNCHANGED <<fn, pc, exc, result, hvars, tvars, fvars, environ, root, citation>>

AuthorsDone ==
    /\ fn = "pmid_with_eutils"
    /\ pc = "eutils.authors"
    /\ idx = Len(root.authors)

ToFeatures ==
    /\ idx' = 0
    /\ pc' = "eutils.features"
    /\ UNCHANGED <<fn, exc, result, hvars, tvars, fvars, environ, root, authors>>

\* More than four authors, all of them named before ' et al. '
EutilsEtAlAll ==
    /\ AuthorsDone
    /\ Len(authors) > 4
    /\ citation' = citation \o Join(<<",", " ">>, authors)
                       \o <<" ", "e", "t", " ", "a", "l", ".", " ">>
    /\ ToFeatures

\* len(authors) > 4
EutilsEtAl ==
    /\ AuthorsDone
    /\ Len(authors) > 4
    /\ citation' = citation \o Join(<<",", " ">>, Take(authors, 4))
                       \o <<" ", "e", "t", " ", "a", "l", ".", " ">>
    /\ ToFeatures

\* len(authors) > 1
EutilsAllAuthors ==
    /\ AuthorsDone
    /\ ~(Len(authors) > 4)
    /\ Len(authors) > 1
    /\ citation' = citation \o Join(<<",", " ">>, authors) \o <<".", " ">>
    /\ ToFeatures

\* len(authors) == 1
EutilsOneAuthor ==
    /\ AuthorsDone
    /\ Len(authors) = 1
    /\ citation' = citation \o authors[1] \o <<".", " ">>
    /\ ToFeatures

\* No author: the citation is left empty
EutilsNoAuthor ==
    /\ AuthorsDone
    /\ Len(authors) = 0
    /\ citation' = citation
    /\ ToFeatures

InFeatureLoop ==
    /\ fn = "pmid_with_eutils"
    /\ pc = "eutils.features"
    /\ idx < Len(Features)

\* root.find(feature) is None
EutilsFeatureAbsent ==
    /\ InFeatureLoop
    /\ ~Found(Features[idx + 1].path)
    /\ idx' = idx + 1
    /\ UNCHANGED <<fn, pc, exc, result, hvars, tvars, fvars, evars>>

\* citation += template.format(text)
EutilsFeature ==
    /\ InFeatureLoop
    /\ Found(Features[idx + 1].path)
    /\ citation' = citation \o Features[idx + 1].pre
                       \o Format(Find(Features[idx + 1].path).text)
                       \o Features[idx + 1].post
    /\ idx' = idx + 1
    /\ UNCHANGED <<fn, pc, exc, result, hvars, tvars, fvars, environ, root, authors>>

\* return grants, citation
EutilsReturn ==
    /\ fn = "pmid_with_eutils"
    /\ pc = "eutils.features"
    /\ idx = Len(Features)
    /\ result' = <<grants, citation>>
    /\ pc' = "returned"
    /\ UNCHANGED <<fn, exc, idx, hvars, tvars, fvars, evars>>

NextEutils ==
    \/ CallEutils
    \/ EutilsKeyError
    \/ EutilsUrlFormat
    \/ EutilsGetFails
    \/ EutilsGet
    \/ EutilsParseError
    \/ EutilsAssertionError
    \/ EutilsParse
    \/ EutilsGrantDropped
    \/ EutilsGrantKept
    \/ EutilsGrantsDone
    \/ EutilsAuthorAttributeError
    \/ EutilsAuthor
    \/ EutilsEtAl
    \/ EutilsAllAuthors
    \/ EutilsOneAuthor
    \/ EutilsNoAuthor
    \/ EutilsFeatureAbsent
    \/ EutilsFeature
    \/ EutilsReturn

\* The four functions of the module
Next ==
    \/ NextTransform
    \/ NextFunding
    \/ NextCitation
    \/ NextEutils

----------------------------------------------------------------------------
(* pmid_to_funding: the properties *)

\* The positions of the separator in a grant string
Slashes(g) == {n \in 1..Len(g) : g[n] = "/"}

Max(S) == CHOOSE n \in S : \A o \in S : o <= n

\* The grant string the loop has just consumed
LastGrant == grants[idx]

\* With two or more separators: the text between the last two is the
\* organization, the text before them the first segment
OrganizationBetween(g) ==
    LET last == Max(Slashes(g))
        before == Max(Slashes(g) \ {last})
    IN  SubSeq(g, before + 1, last - 1)

FirstSegment(g) ==
    LET last == Max(Slashes(g))
        before == Max(Slashes(g) \ {last})
    IN  SubSeq(g, 1, before - 1)

\* The segment ends in a separator and two characters that are both uppercase
\* letters
EndsInUppercaseLetters(f) ==
    /\ Len(f) >= 3
    /\ f[Len(f) - 2] = "/"
    /\ f[Len(f) - 1] \in Upper
    /\ f[Len(f)] \in Upper

\* The segment ends in a separator and two characters other than the
\* separator, none of them a lowercase letter and one at least an uppercase
\* letter
EndsInAbbreviation(f) ==
    /\ Len(f) >= 3
    /\ f[Len(f) - 2] = "/"
    /\ {f[Len(f) - 1], f[Len(f)]} \cap (Lower \cup {"/"}) = {}
    /\ {f[Len(f) - 1], f[Len(f)]} \cap Upper # {}

AfterGrant ==
    /\ fn = "pmid_to_funding"
    /\ pc \in {"funding.for", "returned"}
    /\ idx >= 1

PaddedOrganization ==
    <<"N", "C", "R", "R", " ", "N", "I", "H", " ", "H", "H", "S", " ">>

PaddedIdentifier ==
    <<"M", "0", "1", " ", "R", "R", "0", "0", "0", "0", "5", "1", "-", "4",
      "7", "5", "6", "1", "1", " ", "/", "R", "R", " ">>

PaddedStripped ==
    <<"M", "0", "1", " ", "R", "R", "0", "0", "0", "0", "5", "1", "-", "4",
      "7", "5", "6", "1", "1", " ">>

CompactOrganization ==
    <<"N", "I", "D", "D", "K", " ", "N", "I", "H", " ", "H", "H", "S">>

CompactIdentifier ==
    <<"R", "0", "1", " ", "D", "K", "0", "9", "0", "5", "5", "4">>

\* C2 as stated: the suffix is stripped exactly when the last part of the first
\* segment is two uppercase letters, and the example with the padded columns
\* yields an identifier without its abbreviation.
GrantParsedWithUppercaseLetters ==
    AfterGrant =>
        /\ Cardinality(Slashes(LastGrant)) >= 2 =>
              /\ organization = OrganizationBetween(LastGrant)
              /\ identifier =
                    IF EndsInUppercaseLetters(FirstSegment(LastGrant))
                    THEN SubSeq(FirstSegment(LastGrant), 1,
                                Len(FirstSegment(LastGrant)) - 3)
                    ELSE FirstSegment(LastGrant)
        /\ Cardinality(Slashes(LastGrant)) = 1 =>
              /\ organization = SubSeq(LastGrant, 1, Max(Slashes(LastGrant)) - 1)
              /\ identifier = None
        /\ LastGrant = GrantPadded =>
              /\ organization = PaddedOrganization
              /\ identifier = PaddedStripped

\* C2 as amended: for a grant string with two or more '/', the organization is
\* the text between the last two of them, verbatim, and the identifier is the
\* text before them, without its last 3 characters exactly when it ends in
\* '/' and two more characters of which none is '/' or a lowercase letter and
\* at least one is an uppercase letter (str.isupper); for a grant string with
\* one '/', the organization is the text before it and there is no identifier.
\* "M01 RR000051-475611 /RR /NCRR NIH HHS /United States" yields organization
\* "NCRR NIH HHS " and the identifier "M01 RR000051-475611 /RR " unchanged (its
\* last part "RR " has 3 characters); "R01 DK090554/DK/NIDDK NIH HHS/United
\* States" yields "NIDDK NIH HHS" and "R01 DK090554".
GrantParsedWithIsUpper ==
    AfterGrant =>
        /\ Cardinality(Slashes(LastGrant)) >= 2 =>
              /\ organization = OrganizationBetween(LastGrant)
              /\ identifier =
                    IF EndsInAbbreviation(FirstSegment(LastGrant))
                    THEN SubSeq(FirstSegment(LastGrant), 1,
                                Len(FirstSegment(LastGrant)) - 3)
                    ELSE FirstSegment(LastGrant)
        /\ Cardinality(Slashes(LastGrant)) = 1 =>
              /\ organization = SubSeq(LastGrant, 1, Max(Slashes(LastGrant)) - 1)
              /\ identifier = None
        /\ LastGrant = GrantPadded =>
              /\ organization = PaddedOrganization
              /\ identifier = PaddedIdentifier
        /\ LastGrant = GrantCompact =>
              /\ organization = CompactOrganization
              /\ identifier = CompactIdentifier

\* The abbreviation "/DK" stripped from the identifier of a grant string
AbbreviationStripped ==
    /\ AfterGrant
    /\ LastGrant = GrantCompact
    /\ identifier = CompactIdentifier
    /\ Len(funding) = idx

\* s is a contiguous piece of g
IsPieceOf(s, g) ==
    \E a \in 1..(Len(g) + 1), b \in 0..Len(g) : s = SubSeq(g, a, b)

\* C10: pmid_to_funding never fails on a list of grant strings, returns one
\* entry per grant string, and entry i is computed from grant string i alone:
\* its organization is a piece of that string and equal strings give equal
\* entries.
FundingEntryFromItsGrantAlone ==
    fn = "pmid_to_funding" =>
        /\ exc # "UnboundLocalError"
        /\ pc = "returned" => Len(result) = Len(grants)
        /\ \A n \in 1..Len(funding) :
              IsPieceOf(DictGet(DictGet(funding[n], "funder"), "name"), grants[n])
        /\ \A n, o \in 1..Len(funding) :
              grants[n] = grants[o] => funding[n] = funding[o]

----------------------------------------------------------------------------
(* pmid_with_eutils: the properties *)

Extractors == {"pmid_to_funding", "pmid_to_citation", "pmid_with_eutils"}

\* C9: a GET that fails or returns a non-success status aborts the call: the
\* body is not parsed, nothing is returned and no second request is issued.
FetchFailureAborts ==
    fn \in Extractors =>
        /\ Len(requests) <= 1
        /\ exc = "ConnectionError" => (pc = "raised" /\ status = 0)
        /\ status \notin {0, 200} => pc = "raised"

\* C7: no entry holds the key identifier with a null value, and an entry holds
\* the key exactly when an identifier was obtained for its grant: the grant
\* string left 2 segments (pmid_to_funding), the Grant element has a GrantID
\* child (pmid_with_eutils).
IdentifierPresentIffObtained ==
    /\ fn = "pmid_to_funding" =>
          \A n \in 1..Len(funding) :
              /\ "identifier" \in DictKeys(funding[n]) =>
                    DictGet(funding[n], "identifier") # None
              /\ "identifier" \in DictKeys(funding[n]) <=>
                    Cardinality(Slashes(grants[n])) >= 2
    /\ fn = "pmid_with_eutils" =>
          /\ \A n \in 1..Len(grants) :
                "identifier" \in DictKeys(grants[n]) =>
                    DictGet(grants[n], "identifier") # None
          /\ Cardinality({n \in 1..Len(grants) : "identifier" \in DictKeys(grants[n])})
                = Cardinality({n \in 1..(IF pc = "eutils.grants" THEN idx
                                         ELSE Len(root.grants)) :
                                   root.grants[n].GrantID # Absent})

\* The Grant elements consumed so far
GrantsSeen ==
    SubSeq(root.grants, 1, IF pc = "eutils.grants" THEN idx ELSE Len(root.grants))

HasAgencyOrGrantID(e) == e.Agency # Absent \/ e.GrantID # Absent

AfterParse ==
    /\ fn = "pmid_with_eutils"
    /\ pc \in {"eutils.grants", "eutils.authors", "eutils.features", "returned"}

\* C3: the grants list holds, in document order, one entry for every Grant
\* element with an Agency or a GrantID child and none for the others; an entry
\* has funder = {"@type": "Organization", "name": <Agency text>} exactly when
\* the element has an Agency child and identifier = <GrantID text> exactly when
\* it has a GrantID child, and no other key. One Grant with Agency "NIH" and no
\* GrantID yields [{"funder": {"@type": "Organization", "name": "NIH"}}].
GrantsListMatchesElements ==
    AfterParse =>
        LET kept == SelectSeq(GrantsSeen, HasAgencyOrGrantID)
        IN  /\ Len(grants) = Len(kept)
            /\ \A n \in 1..Len(grants) :
                  /\ DictKeys(grants[n]) \subseteq {"funder", "identifier"}
                  /\ "funder" \in DictKeys(grants[n]) <=> kept[n].Agency # Absent
                  /\ "funder" \in DictKeys(grants[n]) =>
                        AsMap(DictGet(grants[n], "funder")) =
                            [k \in {"@type", "name"} |->
                                IF k = "@type" THEN Str_Organization
                                ELSE kept[n].Agency]
                  /\ "identifier" \in DictKeys(grants[n]) <=> kept[n].GrantID # Absent
                  /\ "identifier" \in DictKeys(grants[n]) =>
                        DictGet(grants[n], "identifier") = kept[n].GrantID
            /\ (pc = "returned" /\ root = AgencyOnlyDocument) =>
                  result[1] = << << <<"funder", << <<"@type", Str_Organization>>,
                                                   <<"name", Str_NIH>> >> >> >> >>
            /\ pc = "returned" => result[1] = grants

\* A Grant without children dropped and a Grant with a GrantID alone kept
GrantDroppedAndGrantKept ==
    /\ fn = "pmid_with_eutils"
    /\ pc = "returned"
    /\ root.grants = <<GrantElement(Absent, Absent), GrantElement(Absent, Str_R01)>>
    /\ result[1] = << << <<"identifier", Str_R01>> >> >>

\* The "LastName Initials" string of an Author element
NameOf(a) ==
    (IF a.LastName = None THEN Str_None ELSE a.LastName) \o <<" ">>
        \o (IF a.Initials = None THEN Str_None ELSE a.Initials)

Names == [n \in 1..Len(root.authors) |-> NameOf(root.authors[n])]

\* The first four names joined by ", " (all of them when there are fewer)
UpToFourNames ==
    IF Len(Names) = 0 THEN <<>>
    ELSE IF Len(Names) = 1 THEN Names[1]
    ELSE IF Len(Names) = 2 THEN Names[1] \o <<",", " ">> \o Names[2]
    ELSE IF Len(Names) = 3
         THEN Names[1] \o <<",", " ">> \o Names[2] \o <<",", " ">> \o Names[3]
    ELSE Names[1] \o <<",", " ">> \o Names[2] \o <<",", " ">> \o Names[3]
             \o <<",", " ">> \o Names[4]

AuthorSegment ==
    IF Len(Names) = 0 THEN <<>>
    ELSE IF Len(Names) <= 4 THEN UpToFourNames \o <<".", " ">>
    ELSE UpToFourNames \o <<" ", "e", "t", " ", "a", "l", ".", " ">>

IsPrefix(s, t) == Len(s) <= Len(t) /\ s = SubSeq(t, 1, Len(s))

\* C4: the citation begins with nothing for 0 authors, "<name>. " for 1, the
\* names joined by ", " and ". " for 2 to 4, and the first 4 names joined by
\* ", " and " et al. " for more than 4, a later author appearing nowhere in
\* this segment; the names are those of all Author elements in document order.
CitationBeginsWithAuthors ==
    (fn = "pmid_with_eutils" /\ pc \in {"eutils.features", "returned"}) =>
        /\ authors = Names
        /\ IsPrefix(AuthorSegment, citation)
        /\ (pc = "eutils.features" /\ idx = 0) => citation = AuthorSegment
        /\ pc = "returned" => IsPrefix(AuthorSegment, result[2])

FourDoesEtAl ==
    <<"D", "o", "e", " ", "J", ",", " ", "D", "o", "e", " ", "J", ",", " ",
      "D", "o", "e", " ", "J", ",", " ", "D", "o", "e", " ", "J", " ", "e",
      "t", " ", "a", "l", ".", " ">>

\* Five authors, the fifth left out
FifthAuthorLeftOut ==
    /\ fn = "pmid_with_eutils"
    /\ pc = "eutils.features"
    /\ idx = 0
    /\ Len(root.authors) = 5
    /\ \A n \in 1..4 : root.authors[n] = AuthorElement(Str_Doe, <<"J">>)
    /\ root.authors[5] = AuthorElement(Str_Roe, None)
    /\ citation = FourDoesEtAl

\* The first element in document order with the path, if there is one
Selected(path) ==
    {n \in 1..Len(root.leaves) :
        /\ root.leaves[n].path = path
        /\ \A o \in 1..(n - 1) : root.leaves[o].path # path}

\* The fragment of a path: nothing if no element has it, else the text of the
\* first element that has it between the two parts of the template
Fragment(path, before, after) ==
    IF Selected(path) = {} THEN <<>>
    ELSE LET text == root.leaves[CHOOSE n \in Selected(path) : TRUE].text
         IN  before \o (IF text = None THEN Str_None ELSE text) \o after

Fragments ==
    << Fragment(TitlePath, <<>>, <<" ">>),
       Fragment(JournalPath, <<>>, <<" ">>),
       Fragment(YearPath, <<>>, <<" ">>),
       Fragment(MonthPath, <<>>, <<";">>),
       Fragment(VolumePath, <<>>, <<>>),
       Fragment(IssuePath, <<"(">>, <<")">>),
       Fragment(PagesPath, <<":">>, <<>>) >>

RECURSIVE Concat(_, _)
Concat(l, n) == IF n = 0 THEN <<>> ELSE Concat(l, n - 1) \o l[n]

\* C5: the citation is the author segment followed by the fragments of title
\* ("{} "), journal ("{} "), year ("{} "), month ("{};"), volume ("{}"), issue
\* ("({})") and pages (":{}") in this order, whatever the order of the elements
\* in the document; a fragment is there exactly when its path is found, is made
\* of the text of the element found, and an absent path adds no character.
CitationIsSegmentThenFragments ==
    /\ (fn = "pmid_with_eutils" /\ pc = "eutils.features") =>
          citation = AuthorSegment \o Concat(Fragments, idx)
    /\ (fn = "pmid_with_eutils" /\ pc = "returned") =>
          result[2] = AuthorSegment \o Concat(Fragments, 7)

NoVolumeCitation ==
    <<"D", "o", "e", " ", "J", ".", " ", "T", " ", "J", " ", "2", "0", "1",
      "9", " ", "M", "a", "y", ";", "(", "3", ")", ":", "1", "-", "9">>

\* A document without Volume: ";" is followed by "(3)" at once
CitationWithoutVolume ==
    /\ fn = "pmid_with_eutils"
    /\ pc = "returned"
    /\ root = NoVolumeDocument
    /\ result[2] = NoVolumeCitation

----------------------------------------------------------------------------

Init ==
    /\ fn = ""
    /\ pc = "idle"
    /\ exc = ""
    /\ result = <<>>
    /\ doc = <<>>
    /\ mappings = <<>>
    /\ _doc = <<>>
    /\ idx = 0
    /\ pmid = ""
    /\ requests = <<>>
    /\ status = 0
    /\ body = <<>>
    /\ grants = <<>>
    /\ funding = <<>>
    /\ organization = Unbound
    /\ identifier = Unbound
    /\ environ = {}
    /\ root = ChildlessRoot
    /\ authors = <<>>
    /\ citation = <<>>

SpecTransform == Init /\ [][NextTransform]_vars

SpecFunding == Init /\ [][NextFunding]_vars

SpecCitation == Init /\ [][NextCitation]_vars

SpecEutils == Init /\ [][NextEutils]_vars

Spec == Init /\ [][Next]_vars

====
